---- MODULE Spec2Model ----
(***************************************************************************)
(* The request-admission pipeline of the payment gateway: the relay        *)
(* handler (authenticated flow and deposit flow), the signature replay     *)
(* cache and the balance ledger with its two backends (RocksDB: get then   *)
(* put; DynamoDB: one conditional update).                                 *)
(*                                                                         *)
(* Amounts.  The code keeps balances as f64 USDC.  The model counts        *)
(* amounts in whole units of a fixed power-of-two fraction of one USDC     *)
(* (0.25 USDC, say): on such values, far below 2^53 units, the f64         *)
(* operations +, - and < of the code are exact, so integers model them     *)
(* without rounding.  Decimal prices such as 0.001 are outside this range. *)
(*                                                                         *)
(* Time.  SystemTime::now() (seconds) and Instant::now() are read from one *)
(* clock `now`, in seconds since the gateway started its clock at 0.       *)
(***************************************************************************)
EXTENDS Integers, Sequences, FiniteSets, TLC

\* ------------------------------------------------------------- bounds
\* Requests handled by the gateway in one behaviour.
MaxReqs == 2
\* The clock visits 0 and the instants k*ttl, k*ttl+1 for k = 1..MaxEpoch.
MaxEpoch == 1
\* Largest balance a ledger record holds when the gateway starts.
MaxBalance == 2
\* Largest value carried by a payment envelope.
MaxValue == 2
\* Largest configured price_per_request.
MaxPrice == 1
\* Callers of the ledger in the ledger-only specification.
MaxWorkers == 3
\* Largest amount of a direct ledger call.
MaxAmount == 2

\* Largest distance between the clock and a timestamp in the verifier-only
\* specification.
MaxDrift == 62

\* ---------------------------------------------------- program constants
TIMESTAMP_WINDOW_SECS == 60
ttl == 120

\* ------------------------------------------------------------- values
Reqs == 1..MaxReqs
Workers == 1..MaxWorkers

\* Address strings as they arrive in headers and envelopes, and the ledger
\* keys they lowercase to.
Addresses == {"0xaa", "0xAA", "0xbb"}
Keys == {"0xaa", "0xbb"}

\* A key taken as it was spelled.
Verbatim_to_lowercase(address) == address

to_lowercase(address) == IF address = "0xAA" THEN "0xaa" ELSE address

\* The instants the clock visits: 0, and each multiple of the cache's ttl and
\* the second after it.
Times == {0} \cup {k * ttl + d : k \in 1..MaxEpoch, d \in 0..1}

\* Option<UserData>: None, or Some(UserData { balance, latest_timestamp }).
None == [some |-> FALSE, balance |-> 0, latest_timestamp |-> 0]

UserData(balance, timestamp) ==
    [some |-> TRUE, balance |-> balance, latest_timestamp |-> timestamp]

\* ------------------------------------------------------------- ledger
\* A ledger `db` maps each key to an Option<UserData>.

get_user(db, address) == db[to_lowercase(address)]

update_user(db, address, data) ==
    [db EXCEPT ![to_lowercase(address)] = data]

\* self.get_user(&key).await?.unwrap_or_else(|| UserData::new(0.0, 0))
unwrap_or_new(opt) == IF opt.some THEN opt ELSE UserData(0, 0)

\* A credit that stores the amount instead of adding it.
Overwrite_rocksdb_add_balance(db, address, amount) ==
    UserData(amount, unwrap_or_new(get_user(db, address)).latest_timestamp)

\* RocksDB add_balance up to its put: the record it is about to write.
rocksdb_add_balance(db, address, amount) ==
    LET user_data == unwrap_or_new(get_user(db, address))
    IN  UserData(user_data.balance + amount, user_data.latest_timestamp)

\* The balance test of RocksDB deduct_balance.
NoCheck_rocksdb_insufficient(balance, amount) == FALSE

\* A balance test that also refuses a debit of exactly the balance.
Strict_rocksdb_insufficient(balance, amount) == balance <= amount

rocksdb_insufficient(balance, amount) == balance < amount

\* RocksDB deduct_balance up to its put: InsufficientBalance, or the record
\* it is about to write.
rocksdb_deduct_balance(db, address, amount, timestamp) ==
    LET user_data == unwrap_or_new(get_user(db, address))
    IN  IF rocksdb_insufficient(user_data.balance, amount)
        THEN [ok |-> FALSE, has |-> user_data.balance, need |-> amount,
              data |-> user_data]
        ELSE [ok |-> TRUE, has |-> user_data.balance, need |-> amount,
              data |-> UserData(user_data.balance - amount, timestamp)]

\* A credit that also resets latest_timestamp.
Resetting_dynamodb_add_balance(db, address, amount) ==
    LET item == get_user(db, address)
        new  == UserData((IF item.some THEN item.balance ELSE 0) + amount, 0)
    IN  [db |-> update_user(db, address, new), value |-> new.balance]

\* DynamoDB add_balance: one update_item,
\* SET balance = if_not_exists(balance, 0) + amount,
\*     latest_timestamp = if_not_exists(latest_timestamp, 0).
dynamodb_add_balance(db, address, amount) ==
    LET item == get_user(db, address)
        new  == UserData((IF item.some THEN item.balance ELSE 0) + amount,
                         IF item.some THEN item.latest_timestamp ELSE 0)
    IN  [db |-> update_user(db, address, new), value |-> new.balance]

\* A condition that only asks for the record to exist.
ExistsOnly_dynamodb_condition(item, amount) == item.some

\* The condition expression of DynamoDB deduct_balance.
dynamodb_condition(item, amount) == item.some /\ item.balance >= amount

\* DynamoDB deduct_balance: one conditional update_item; a failed condition
\* is reported as InsufficientBalance { has: 0.0, need: amount }.
dynamodb_deduct_balance(db, address, amount, timestamp) ==
    LET item == get_user(db, address)
    IN  IF dynamodb_condition(item, amount)
        THEN [ok |-> TRUE, has |-> 0, need |-> amount,
              db |-> update_user(db, address,
                                 UserData(item.balance - amount, timestamp)),
              value |-> item.balance - amount]
        ELSE [ok |-> FALSE, has |-> 0, need |-> amount, db |-> db, value |-> 0]

\* ------------------------------------------------------- replay cache
\* The HashMap<String, Instant> as a set of <<signature, first_seen>> pairs
\* with at most one pair per signature.

\* retain(|_, first_seen| now.duration_since(first_seen) < self.ttl)
retained(now_, first_seen) == now_ - first_seen < ttl

\* A cleanup that empties the cache at every probe.
Eager_cleanup(signatures_, now_) == {}

cleanup(signatures_, now_) ==
    {e \in signatures_ : retained(now_, e[2])}

\* A lookup that finds nothing.
Unseen_contains_key(signatures_, signature) == FALSE

contains_key(signatures_, signature) ==
    \E e \in signatures_ : e[1] = signature

\* is_replay: the map after cleanup, and whether the signature is in it.
is_replay(signatures_, signature, now_) ==
    LET kept == cleanup(signatures_, now_)
    IN  [signatures |-> kept, replay |-> contains_key(kept, signature)]

\* A cache that remembers nothing.
Forgetful_add(signatures_, signature, now_) == signatures_

\* add: insert(signature, now) replaces an entry of the same signature.
add(signatures_, signature, now_) ==
    {e \in signatures_ : e[1] # signature} \cup {<<signature, now_>>}

\* ------------------------------------------------- signature verifier
\* Signing and recovery are ideal: a signature is the pair of its signer (named
\* by the signer's address key) and the message it was made over, and recovery
\* from another message yields an address no header claims.

\* keccak256(body), hex-encoded: injective on the bodies of the model.
body_hash(body) == <<"keccak256", body>>

\* format!("{}{}{}", address, timestamp, hex::encode(body_hash))
Message(address, timestamp, body) == <<address, timestamp, body_hash(body)>>

Sign(signer, message) == [signer |-> signer, message |-> message]

\* A recovery that yields the signer whatever message is presented.
Lenient_recover_address_from_prehash(signature, message) == signature.signer

\* Ideal signatures: recovery over the signed message yields the address of the
\* signer's key, recovery over any other message yields some other address.
recover_address_from_prehash(signature, message) ==
    IF signature.message = message THEN signature.signer ELSE "0x??"

\* address.parse::<Address>(): hex digits of either case name the same bytes.
parse_address(address) == to_lowercase(address)

abs_diff(a, b) == IF a >= b THEN a - b ELSE b - a

\* A window that is open at its ends: a drift of exactly the window is refused.
Open_outside_window(now_, timestamp) ==
    abs_diff(now_, timestamp) >= TIMESTAMP_WINDOW_SECS

\* now.abs_diff(timestamp) > TIMESTAMP_WINDOW_SECS
outside_window(now_, timestamp) ==
    abs_diff(now_, timestamp) > TIMESTAMP_WINDOW_SECS

verify_signature(address, signature, timestamp, body, now_) ==
    IF outside_window(now_, timestamp) THEN "timestamp outside window"
    ELSE IF recover_address_from_prehash(signature,
                Message(address, timestamp, body)) # parse_address(address)
         THEN "address mismatch"
         ELSE "ok"

\* ------------------------------------------------------------ requests
\* What a client can put on the wire.  x_payment: the request carries an
\* X-Payment header.  address, signature, timestamp: the X-Auth-Address,
\* X-Auth-Signature and X-Auth-Timestamp headers; a missing header is "",
\* NoSignature or NoTimestamp, and a timestamp header that is not an unsigned
\* decimal is BadTimestamp.  kind names what the client meant to send: "auth",
\* a "payment", or a "bare" request that is neither.
Timestamps == {TIMESTAMP_WINDOW_SECS}
Body == "body"

\* payload.authorization.value of an envelope: missing (-1), or the top-up.
Values == {-1, MaxValue}

NoSignature == Sign("", <<"", 0, body_hash(Body)>>)

NoTimestamp == 0 - 1
BadTimestamp == 0 - 2

AuthRequest(address, signer, timestamp) ==
    [kind |-> "auth", x_payment |-> FALSE, address |-> address,
     signature |-> Sign(signer, Message(address, timestamp, Body)),
     timestamp |-> timestamp, body |-> Body,
     envelope_ok |-> FALSE, payer |-> "", value |-> -1]

PaymentRequest(envelope_ok, payer, value) ==
    [kind |-> "payment", x_payment |-> TRUE,
     address |-> "", signature |-> NoSignature,
     timestamp |-> NoTimestamp, body |-> Body,
     envelope_ok |-> envelope_ok, payer |-> payer, value |-> value]

BareRequest ==
    [kind |-> "bare", x_payment |-> FALSE,
     address |-> "", signature |-> NoSignature,
     timestamp |-> NoTimestamp, body |-> Body,
     envelope_ok |-> FALSE, payer |-> "", value |-> -1]

\* ------------------------------------------------- the client transport
\* u64::to_string: the decimal digits, most significant first.
RECURSIVE decimal(_)
decimal(n) == IF n < 10 THEN <<n>> ELSE Append(decimal(n \div 10), n % 10)

RECURSIVE digits_value(_)
digits_value(s) ==
    IF s = <<>> THEN 0
    ELSE 10 * digits_value(SubSeq(s, 1, Len(s) - 1)) + s[Len(s)]

\* str::parse::<u64> of a header made of digits; the empty string is an error.
parse_u64(s) == IF s = <<>> THEN BadTimestamp ELSE digits_value(s)

\* Display of an Address: the mixed-case checksum spelling of its bytes.  The
\* spelling of 0xaa has upper-case letters, that of 0xbb has none.
to_checksum(key) == IF key = "0xaa" THEN "0xAA" ELSE key

Bodies == {Body, "other body"}

\* A transport that signs over the lower-case spelling of its address and
\* sends the checksum spelling in the header.
Lowercase_do_reqwest(key, body, now_) ==
    [kind |-> "auth", x_payment |-> FALSE,
     address |-> to_checksum(key),
     signature |-> Sign(key, Message(key, now_, body)),
     timestamp |-> parse_u64(decimal(now_)), body |-> body,
     envelope_ok |-> FALSE, payer |-> "", value |-> -1]

\* PaymentTransport::do_reqwest up to send: the request it puts on the wire
\* for a signer key, a body and a reading of the client's clock.  The timestamp
\* field is the X-Auth-Timestamp header as the gateway parses it.
do_reqwest(key, body, now_) ==
    LET address == to_checksum(key)
        message == Message(address, now_, body)
    IN  [kind |-> "auth", x_payment |-> FALSE,
         address |-> address,
         signature |-> Sign(key, message),
         timestamp |-> parse_u64(decimal(now_)), body |-> body,
         envelope_ok |-> FALSE, payer |-> "", value |-> -1]

\* Authenticated requests: the holder of the key of 0xaa signs under either
\* spelling of its address, or the holder of another key signs in its name.
AuthRequests ==
    {AuthRequest("0xaa", "0xaa", t) : t \in Timestamps}
    \cup {AuthRequest("0xAA", "0xaa", t) : t \in Timestamps}
    \cup {AuthRequest("0xaa", "0xbb", t) : t \in Timestamps}

\* The request q carrying the X-Auth headers of the request a as well.
WithAuthHeaders(q, a) ==
    [q EXCEPT !.address = a.address, !.signature = a.signature,
              !.timestamp = a.timestamp]

\* Deposit requests: a header that does not parse; an envelope without
\* payload.authorization.from; envelopes naming a payer, with or without a
\* value; a deposit that also carries valid X-Auth headers.
PaymentRequests ==
    {PaymentRequest(FALSE, "", -1), PaymentRequest(TRUE, "", MaxValue)}
    \cup {PaymentRequest(TRUE, "0xAA", v) : v \in Values}
    \cup {WithAuthHeaders(PaymentRequest(TRUE, "0xbb", MaxValue),
                          AuthRequest("0xaa", "0xaa", t)) : t \in Timestamps}

\* Requests without X-Payment whose X-Auth headers are incomplete: none of the
\* three; one of the three missing; a timestamp that is not a decimal.
BareRequests ==
    {BareRequest}
    \cup {[AuthRequest("0xaa", "0xaa", t) EXCEPT !.kind = "bare", !.address = ""] :
            t \in Timestamps}
    \cup {[AuthRequest("0xaa", "0xaa", t) EXCEPT !.kind = "bare",
                                                !.signature = NoSignature] :
            t \in Timestamps}
    \cup {[AuthRequest("0xaa", "0xaa", t) EXCEPT !.kind = "bare",
                                                !.timestamp = h] :
            t \in Timestamps, h \in {NoTimestamp, BadTimestamp}}

Requests == AuthRequests \cup PaymentRequests \cup BareRequests

\* Some((address, signature, timestamp)) iff the three headers are present and
\* the timestamp parses as u64.
extract_auth_headers(q) ==
    q.address # "" /\ q.signature # NoSignature /\ q.timestamp >= 0

\* A dispatch that looks at X-Payment only when the X-Auth headers are absent.
AuthFirst_has_payment_header(q) == q.x_payment /\ ~extract_auth_headers(q)

has_payment_header(q) == q.x_payment

\* amount_raw.parse::<u64>().map(|v| v as f64 / 1_000_000.0).unwrap_or(0.0),
\* with "0" for a missing value.
amount_usdc(value) == IF value < 0 THEN 0 ELSE value

\* --------------------------------------------------------------- state
VARIABLES
    backend,       \* "rocksdb" or "dynamodb": the DatabaseTrait implementation
    price,         \* config.price_per_request
    now,           \* the clock
    ledger,        \* the database: key -> Option<UserData>
    signatures,    \* SignatureCache.signatures
    signature_cache, \* the Mutex of AppState.signature_cache: the request
                   \* whose block holds its guard, or Unlocked
    pc,            \* per request: where its handler task stands
    req,           \* per request: what arrived (headers and body)
    user_data,     \* per request: the record a RocksDB call read and will put
    timestamp,     \* per request: the timestamp it passes to deduct_balance
    credit,        \* per request: outcome of its add_balance
    debit,         \* per request: outcome of its deduct_balance
    forwarded,     \* per request: relay_to_node was called with its body
    resp,          \* per request: the response it returned
    at,            \* per request: the clock reading of its cache.add, or -1
    prior,         \* per request: the requests already answered when it arrived
    verified,      \* per request: outcome of its paygate.verify_payment
    settled,       \* per request: outcome of its paygate.settle_payment
    ledger0,       \* the ledger as it was at the start
    wop,           \* per direct caller of the ledger: the call it makes
    wpc,           \* per direct caller: where its call stands
    wdata,         \* per direct caller: the record a RocksDB call will put
    wres,          \* per direct caller: what its call returned
    overlap        \* a direct call started while another was between get and put

gatewayVars == <<price, now, signatures, signature_cache, pc, req, user_data, timestamp, credit,
                 debit, forwarded, resp, at, prior, verified, settled>>

workerVars == <<ledger0, wop, wpc, wdata, wres, overlap>>

vars == <<backend, ledger, gatewayVars, workerVars>>

\* The Mutex around the cache.  No request holds its guard.
Unlocked == 0

\* A lock() that also waits for the guard its own caller holds.
Relocking_lock(mutex, r) == mutex = Unlocked

\* signature_cache.lock(): the caller gets the guard when no other request
\* holds it, and waits otherwise.
lock(mutex, r) == mutex \in {Unlocked, r}

\* A guard that outlives its block.
Kept_drop(r) == r

\* The guard `cache` is dropped at the closing brace of the block that locked,
\* or by the return inside it.
drop(r) == Unlocked

NoResponse == [status |-> "", reason |-> ""]
Response(status, reason) == [status |-> status, reason |-> reason]

\* request_payment: 402 with the payment requirements.
request_payment == Response("402", "payment required")

InitialLedgers ==
    {[k \in Addresses |-> None]}
    \cup {[k \in Addresses |-> IF k = "0xaa" THEN UserData(b, 0) ELSE None] :
            b \in 0..MaxBalance}

\* A direct call of the DatabaseTrait: get_user, add_balance or deduct_balance.
Call(kind, address, amount, ts) ==
    [kind |-> kind, address |-> address, amount |-> amount, timestamp |-> ts]

NoResult == [status |-> "none", value |-> 0, data |-> None]
Result(status, value, data) == [status |-> status, value |-> value, data |-> data]

GatewayIdle ==
    /\ now = 0
    /\ signatures = {}
    /\ signature_cache = Unlocked
    /\ pc = [r \in Reqs |-> "idle"]
    /\ req = [r \in Reqs |-> BareRequest]
    /\ user_data = [r \in Reqs |-> None]
    /\ timestamp = [r \in Reqs |-> 0]
    /\ credit = [r \in Reqs |-> "none"]
    /\ debit = [r \in Reqs |-> "none"]
    /\ forwarded = [r \in Reqs |-> FALSE]
    /\ resp = [r \in Reqs |-> NoResponse]
    /\ at = [r \in Reqs |-> -1]
    /\ prior = [r \in Reqs |-> {}]
    /\ verified = [r \in Reqs |-> "none"]
    /\ settled = [r \in Reqs |-> "none"]

WorkersIdle ==
    /\ wpc = [w \in Workers |-> "call"]
    /\ wdata = [w \in Workers |-> None]
    /\ wres = [w \in Workers |-> NoResult]
    /\ overlap = FALSE

\* The gateway after AppState::new: a backend and a price from the
\* configuration, the database as an earlier run left it, an empty cache.
Init ==
    /\ backend \in {"rocksdb", "dynamodb"}
    /\ price \in 1..MaxPrice
    /\ ledger \in InitialLedgers
    /\ ledger0 = ledger
    /\ GatewayIdle
    /\ WorkersIdle
    /\ wop = [w \in Workers |-> Call("get_user", "0xaa", 0, 0)]

\* The handler returns `response`.
Return(r, response) ==
    /\ pc' = [pc EXCEPT ![r] = "done"]
    /\ resp' = [resp EXCEPT ![r] = response]

Goto(r, label) ==
    /\ pc' = [pc EXCEPT ![r] = label]
    /\ UNCHANGED resp

\* Time passes.  Only the steps that read the clock see it, so the clock is
\* advanced just before one of them.
ReadsClock(label) ==
    label \in {"is_replay", "verify_signature", "add", "add_balance", "add_put"}

Tick ==
    /\ \E r \in Reqs : ReadsClock(pc[r])
    /\ \E t \in Times : t > now /\ now' = t
    /\ UNCHANGED <<backend, price, ledger, signatures, pc, req, user_data,
                   timestamp, credit, debit, forwarded, resp, at, prior,
                   verified, settled, signature_cache,
                   workerVars>>

\* relay up to its first access to shared state: the dispatch on X-Payment, then
\* extract_auth_headers, or in the deposit flow extract_payment_payload.
Receive(r) ==
    /\ pc[r] = "idle"
    /\ \A o \in Reqs : o < r => pc[o] # "idle"
    /\ \E q \in Requests :
        /\ req' = [req EXCEPT ![r] = q]
        /\ timestamp' = [timestamp EXCEPT ![r] = q.timestamp]
        /\ IF has_payment_header(q)
           THEN IF q.envelope_ok
                THEN Goto(r, "verify_payment")
                ELSE Return(r, Response("x402", "payment extraction failed"))
           ELSE IF extract_auth_headers(q)
                THEN Goto(r, "is_replay")
                ELSE Return(r, request_payment)
    /\ prior' = [prior EXCEPT ![r] = {o \in Reqs : pc[o] \in {"done", "dropped"}}]
    /\ UNCHANGED <<backend, price, now, ledger, signatures, user_data,
                   credit, debit, forwarded, at,
                   verified, settled, signature_cache,
                   workerVars>>

\* The first locked block of relay: cache.is_replay(&signature).
CheckReplay(r) ==
    /\ pc[r] = "is_replay"
    /\ lock(signature_cache, r)
    /\ signature_cache' = drop(r)
    /\ LET probe == is_replay(signatures, req[r].signature, now)
       IN  /\ signatures' = probe.signatures
           /\ IF probe.replay
              THEN Return(r, Response("401", "replay detected"))
              ELSE Goto(r, "verify_signature")
    /\ UNCHANGED <<backend, price, now, ledger, req, user_data, timestamp,
                   credit, debit, forwarded, at, prior,
                   verified, settled, workerVars>>

VerifySignature(r) ==
    /\ pc[r] = "verify_signature"
    /\ LET e == verify_signature(req[r].address, req[r].signature,
                                 req[r].timestamp, req[r].body, now)
       IN  IF e = "ok"
           THEN Goto(r, "deduct_balance")
           ELSE Return(r, Response("401", e))
    /\ UNCHANGED <<backend, price, now, ledger, signatures, req, user_data,
                   timestamp, credit, debit, forwarded, at, prior,
                   verified, settled, signature_cache,
                   workerVars>>

\* The address a request's ledger calls name: the X-Auth-Address header, or in
\* the deposit flow the payer of the envelope.
LedgerAddress(r) ==
    IF has_payment_header(req[r]) THEN req[r].payer ELSE req[r].address

\* A relay that forwards whatever deduct_balance returned.
Forwarding_AfterDeduct(r, outcome) ==
    /\ debit' = [debit EXCEPT ![r] = outcome]
    /\ IF ~has_payment_header(req[r]) /\ outcome = "ok"
       THEN Goto(r, "add")
       ELSE Goto(r, "relay_to_node")

\* A relay that remembers the signature whatever deduct_balance returned.
Remembering_AfterDeduct(r, outcome) ==
    /\ debit' = [debit EXCEPT ![r] = outcome]
    /\ IF has_payment_header(req[r])
       THEN Goto(r, "relay_to_node")
       ELSE Goto(r, "add")

\* A deposit flow that gives up when its own debit fails.
Aborting_AfterDeduct(r, outcome) ==
    /\ debit' = [debit EXCEPT ![r] = outcome]
    /\ IF outcome = "ok"
       THEN Goto(r, IF has_payment_header(req[r])
                    THEN "relay_to_node" ELSE "add")
       ELSE Return(r, request_payment)

\* What follows deduct_balance.  relay: Ok goes on to cache.add, Err answers
\* request_payment.  handle_payment_with_paygate: the error is logged and the
\* request goes on to relay_to_node.
AfterDeduct(r, outcome) ==
    /\ debit' = [debit EXCEPT ![r] = outcome]
    /\ IF has_payment_header(req[r])
       THEN Goto(r, "relay_to_node")
       ELSE IF outcome = "ok"
            THEN Goto(r, "add")
            ELSE Return(r, request_payment)

\* RocksDB deduct_balance: get_user and the balance test.
RocksDeductGet(r) ==
    /\ backend = "rocksdb"
    /\ pc[r] = "deduct_balance"
    /\ LET res == rocksdb_deduct_balance(ledger, LedgerAddress(r), price,
                                         timestamp[r])
       IN  IF res.ok
           THEN /\ user_data' = [user_data EXCEPT ![r] = res.data]
                /\ Goto(r, "deduct_put")
                /\ UNCHANGED debit
           ELSE /\ AfterDeduct(r, "insufficient")
                /\ UNCHANGED user_data
    /\ UNCHANGED <<backend, price, now, ledger, signatures, req, timestamp,
                   credit, forwarded, at, prior,
                   verified, settled, signature_cache,
                   workerVars>>

\* RocksDB deduct_balance: update_user with the record computed from the get.
RocksDeductPut(r) ==
    /\ backend = "rocksdb"
    /\ pc[r] = "deduct_put"
    /\ user_data' = [user_data EXCEPT ![r] = None]
    /\ ledger' = update_user(ledger, LedgerAddress(r), user_data[r])
    /\ AfterDeduct(r, "ok")
    /\ UNCHANGED <<backend, price, now, signatures, req, timestamp,
                   credit, forwarded, at, prior,
                   verified, settled, signature_cache,
                   workerVars>>

\* DynamoDB deduct_balance: the conditional update_item.
DynamoDeduct(r) ==
    /\ backend = "dynamodb"
    /\ pc[r] = "deduct_balance"
    /\ LET res == dynamodb_deduct_balance(ledger, LedgerAddress(r), price,
                                          timestamp[r])
       IN  /\ ledger' = res.db
           /\ AfterDeduct(r, IF res.ok THEN "ok" ELSE "insufficient")
    /\ UNCHANGED <<backend, price, now, signatures, req, user_data, timestamp,
                   credit, forwarded, at, prior,
                   verified, settled, signature_cache,
                   workerVars>>

\* The second locked block of relay: cache.add(&signature).
Remember(r) ==
    /\ pc[r] = "add"
    /\ lock(signature_cache, r)
    /\ signature_cache' = drop(r)
    /\ signatures' = add(signatures, req[r].signature, now)
    /\ at' = [at EXCEPT ![r] = now]
    /\ Goto(r, "relay_to_node")
    /\ UNCHANGED <<backend, price, now, ledger, req, user_data, timestamp,
                   credit, debit, forwarded, prior,
                   verified, settled, workerVars>>

\* What the POST to the node comes to: the node answered with a status and a
\* body, or the send failed, or the status arrived and reading the body failed.
UpstreamStatuses == {"200", "500"}

Upstream(kind, status, body) == [kind |-> kind, status |-> status, body |-> body]

ConnectFailed == Upstream("connect failed", "", "")

\* relay_to_node: the status and the body of the node are passed on; a failed
\* send or a failed read of the body is answered with a synthesized 502.  The
\* reason of the response stands for its body.
relay_to_node(u) ==
    IF u.kind = "connect failed"
    THEN Response("502", "failed to connect to node")
    ELSE IF u.kind = "read failed"
    THEN Response("502", "failed to read node response")
    ELSE Response(u.status, u.body)

\* The outcomes of the POST that the gateway specification tells apart.
GatewayUpstream ==
    {Upstream("answered", s, "upstream") : s \in UpstreamStatuses}
    \cup {ConnectFailed}

RelayToNode(r) ==
    /\ pc[r] = "relay_to_node"
    /\ forwarded' = [forwarded EXCEPT ![r] = TRUE]
    /\ \E u \in GatewayUpstream : Return(r, relay_to_node(u))
    /\ UNCHANGED <<backend, price, now, ledger, signatures, req, user_data,
                   timestamp, credit, debit, at, prior,
                   verified, settled, signature_cache,
                   workerVars>>

\* A deposit flow that goes on to settle whatever verify_payment returned.
Settling_AfterVerify(r, outcome) ==
    /\ verified' = [verified EXCEPT ![r] = outcome]
    /\ Goto(r, "settle_payment")

\* What follows paygate.verify_payment: Err is returned; on Ok the payer is
\* read from the verified payload, and an empty payer is answered 400.
AfterVerify(r, outcome) ==
    /\ verified' = [verified EXCEPT ![r] = outcome]
    /\ IF outcome # "ok"
       THEN Return(r, Response("x402", "payment verification failed"))
       ELSE IF req[r].payer = ""
            THEN Return(r, Response("400", "Invalid payment format"))
            ELSE Goto(r, "settle_payment")

\* handle_payment_with_paygate: paygate.verify_payment, then the payer and the
\* amount are read from the verified payload.
VerifyPayment(r) ==
    /\ pc[r] = "verify_payment"
    /\ \E outcome \in {"ok", "failed"} : AfterVerify(r, outcome)
    /\ UNCHANGED <<backend, price, now, ledger, signatures, req, user_data,
                   timestamp, credit, debit, forwarded, at, prior,
                   settled, signature_cache,
                   workerVars>>

\* A deposit flow that credits whatever settle_payment returned.
Crediting_AfterSettle(r, outcome) ==
    /\ settled' = [settled EXCEPT ![r] = outcome]
    /\ Goto(r, "add_balance")

\* What follows paygate.settle_payment: Ok goes on to add_balance, Err is
\* returned.
AfterSettle(r, outcome) ==
    /\ settled' = [settled EXCEPT ![r] = outcome]
    /\ IF outcome = "ok"
       THEN Goto(r, "add_balance")
       ELSE Return(r, Response("x402", "payment settlement failed"))

\* paygate.settle_payment.
SettlePayment(r) ==
    /\ pc[r] = "settle_payment"
    /\ \E outcome \in {"ok", "failed"} : AfterSettle(r, outcome)
    /\ UNCHANGED <<backend, price, now, ledger, signatures, req, user_data,
                   timestamp, credit, debit, forwarded, at, prior,
                   verified, signature_cache,
                   workerVars>>

\* A deposit flow that does not bill the deposit request itself.
Unbilled_AfterAdd(r) ==
    /\ credit' = [credit EXCEPT ![r] = "ok"]
    /\ timestamp' = [timestamp EXCEPT ![r] = now]
    /\ UNCHANGED debit
    /\ Goto(r, "relay_to_node")

\* What follows a successful add_balance: the timestamp of the debit is read
\* from the clock.
AfterAdd(r) ==
    /\ credit' = [credit EXCEPT ![r] = "ok"]
    /\ timestamp' = [timestamp EXCEPT ![r] = now]
    /\ Goto(r, "deduct_balance")

\* RocksDB add_balance: get_user and the sum.
RocksAddGet(r) ==
    /\ backend = "rocksdb"
    /\ pc[r] = "add_balance"
    /\ user_data' = [user_data EXCEPT ![r] =
            rocksdb_add_balance(ledger, req[r].payer, amount_usdc(req[r].value))]
    /\ Goto(r, "add_put")
    /\ UNCHANGED <<backend, price, now, ledger, signatures, req, timestamp,
                   credit, debit, forwarded, at, prior,
                   verified, settled, signature_cache,
                   workerVars>>

\* RocksDB add_balance: update_user with the record computed from the get.
RocksAddPut(r) ==
    /\ backend = "rocksdb"
    /\ pc[r] = "add_put"
    /\ user_data' = [user_data EXCEPT ![r] = None]
    /\ ledger' = update_user(ledger, req[r].payer, user_data[r])
    /\ AfterAdd(r)
    /\ UNCHANGED <<backend, price, now, signatures, req, debit,
                   forwarded, at, prior,
                   verified, settled, signature_cache,
                   workerVars>>

\* DynamoDB add_balance: the update_item.
DynamoAdd(r) ==
    /\ backend = "dynamodb"
    /\ pc[r] = "add_balance"
    /\ ledger' = dynamodb_add_balance(ledger, req[r].payer,
                                      amount_usdc(req[r].value)).db
    /\ AfterAdd(r)
    /\ UNCHANGED <<backend, price, now, signatures, req, user_data, debit,
                   forwarded, at, prior,
                   verified, settled, signature_cache,
                   workerVars>>

\* A ledger call fails on storage I/O (a RocksDB get or put, a DynamoDB
\* request) and writes nothing.
LedgerError(r) ==
    /\ user_data' = [user_data EXCEPT ![r] = None]
    /\ \/ /\ pc[r] \in {"deduct_balance", "deduct_put"}
          /\ AfterDeduct(r, "error")
          /\ UNCHANGED credit
       \/ /\ pc[r] \in {"add_balance", "add_put"}
          /\ credit' = [credit EXCEPT ![r] = "error"]
          /\ Return(r, Response("500", "Failed to process payment"))
          /\ UNCHANGED debit
    /\ UNCHANGED <<backend, price, now, ledger, signatures, req,
                   timestamp, forwarded, at, prior,
                   verified, settled, signature_cache,
                   workerVars>>

Next ==
    \/ Tick
    \/ \E r \in Reqs :
        \/ Receive(r)
        \/ CheckReplay(r)
        \/ VerifySignature(r)
        \/ RocksDeductGet(r)
        \/ RocksDeductPut(r)
        \/ DynamoDeduct(r)
        \/ Remember(r)
        \/ RelayToNode(r)
        \/ VerifyPayment(r)
        \/ SettlePayment(r)
        \/ RocksAddGet(r)
        \/ RocksAddPut(r)
        \/ DynamoAdd(r)
        \/ LedgerError(r)

Spec == Init /\ [][Next]_vars

\* ------------------------------------------- the gateway with disconnects
\*
\* The client closes the connection while its handler task is suspended on an
\* await, and the server drops the task: nothing after the await runs.  The
\* awaits of relay and handle_payment_with_paygate are the calls of the
\* facilitator, of the database and of the upstream.  The RocksDB calls never
\* suspend; a DynamoDB call is suspended until the answer of the service
\* arrives, which is after the service applied the update.

\* Suspended on an await whose call has changed or will change nothing here.
Suspended(r) ==
    \/ pc[r] \in {"verify_payment", "settle_payment", "relay_to_node"}
    \/ backend = "dynamodb" /\ pc[r] \in {"deduct_balance", "add_balance"}

Cancel(r) ==
    /\ Goto(r, "dropped")
    /\ \/ /\ Suspended(r)
          /\ forwarded' = [forwarded EXCEPT ![r] = @ \/ pc[r] = "relay_to_node"]
          /\ UNCHANGED <<ledger, credit, debit>>
       \/ /\ backend = "dynamodb"
          /\ pc[r] = "deduct_balance"
          /\ LET res == dynamodb_deduct_balance(ledger, LedgerAddress(r), price,
                                                timestamp[r])
             IN  /\ res.ok
                 /\ ledger' = res.db
          /\ debit' = [debit EXCEPT ![r] = "ok"]
          /\ UNCHANGED <<credit, forwarded>>
       \/ /\ backend = "dynamodb"
          /\ pc[r] = "add_balance"
          /\ ledger' = dynamodb_add_balance(ledger, req[r].payer,
                                            amount_usdc(req[r].value)).db
          /\ credit' = [credit EXCEPT ![r] = "ok"]
          /\ UNCHANGED <<debit, forwarded>>
    /\ UNCHANGED <<backend, price, now, signatures, req, user_data, timestamp,
                   at, prior, verified, settled, signature_cache,
                   workerVars>>

CancelNext == Next \/ \E r \in Reqs : Cancel(r)

SpecCancel == Init /\ [][CancelNext]_vars

\* ------------------------------------------- the gateway with its lock steps
\*
\* signature_cache.lock() as a step of its own: the request takes the guard and
\* runs the rest of its block (CheckReplay or Remember) in a later step, and
\* the requests that call lock() in between wait.

Lock(r) ==
    /\ pc[r] \in {"is_replay", "add"}
    /\ signature_cache = Unlocked
    /\ signature_cache' = r
    /\ UNCHANGED <<backend, price, now, ledger, signatures, pc, req, user_data,
                   timestamp, credit, debit, forwarded, resp, at, prior,
                   verified, settled, workerVars>>

MutexNext == Next \/ \E r \in Reqs : Lock(r)

SpecMutex == Init /\ [][MutexNext]_vars

\* The steps of the handler task of request r.  Each is a piece of straight
\* code or a call that returns (the HTTP clients have timeouts; the ledger and
\* the facilitator are taken to answer), so the task is not left waiting at a
\* step it can take.  The arrival of a request and the passing of time are
\* under no such obligation.
Handler(r) ==
    \/ Lock(r)
    \/ CheckReplay(r)
    \/ VerifySignature(r)
    \/ RocksDeductGet(r)
    \/ RocksDeductPut(r)
    \/ DynamoDeduct(r)
    \/ Remember(r)
    \/ RelayToNode(r)
    \/ VerifyPayment(r)
    \/ SettlePayment(r)
    \/ RocksAddGet(r)
    \/ RocksAddPut(r)
    \/ DynamoAdd(r)
    \/ LedgerError(r)

SpecFair == SpecMutex /\ \A r \in Reqs : WF_vars(Handler(r))

\* ------------------------------------------------ the ledger on its own
\* MaxWorkers callers, each making one call of the DatabaseTrait on the record
\* of 0xaa, in any interleaving.  On RocksDB add_balance and deduct_balance
\* are a get followed by a put, and the calls of other tasks, which run on
\* other threads of the runtime, can come between the two.

Calls ==
    {Call("get_user", "0xaa", 0, 0)}
    \cup {Call(k, "0xaa", a, 0) : k \in {"add_balance", "deduct_balance"},
                                  a \in 0..MaxAmount}

\* The callers are interchangeable: their calls are listed in a fixed order.
Rank(c) ==
    (CASE c.kind = "get_user" -> 0
       [] c.kind = "add_balance" -> 1
       [] c.kind = "deduct_balance" -> 2) * (MaxAmount + 1) + c.amount

LedgerInit ==
    /\ backend \in {"rocksdb", "dynamodb"}
    /\ price = 1
    /\ ledger \in InitialLedgers
    /\ ledger0 = ledger
    /\ GatewayIdle
    /\ WorkersIdle
    /\ \E f \in [Workers -> Calls] :
        /\ \A w \in Workers : w + 1 \in Workers => Rank(f[w]) <= Rank(f[w + 1])
        /\ wop = [w \in Workers |->
                    Call(f[w].kind, f[w].address, f[w].amount, w)]

\* A call starts while another caller holds a record it read and has not put.
Overlaps(w) == \E o \in Workers : o # w /\ wpc[o] = "put"

Finish(w, result) ==
    /\ wpc' = [wpc EXCEPT ![w] = "done"]
    /\ wres' = [wres EXCEPT ![w] = result]
    /\ wdata' = [wdata EXCEPT ![w] = None]

\* get_user, on either backend: one read.
GetUser(w) ==
    /\ wpc[w] = "call"
    /\ wop[w].kind = "get_user"
    /\ Finish(w, Result("ok", 0, get_user(ledger, wop[w].address)))
    /\ overlap' = (overlap \/ Overlaps(w))
    /\ UNCHANGED <<backend, ledger, gatewayVars, ledger0, wop>>

\* RocksDB add_balance or deduct_balance: the get and what is computed from it.
RocksGet(w) ==
    /\ backend = "rocksdb"
    /\ wpc[w] = "call"
    /\ \/ /\ wop[w].kind = "add_balance"
          /\ wdata' = [wdata EXCEPT ![w] =
                rocksdb_add_balance(ledger, wop[w].address, wop[w].amount)]
          /\ wpc' = [wpc EXCEPT ![w] = "put"]
          /\ UNCHANGED wres
       \/ /\ wop[w].kind = "deduct_balance"
          /\ LET res == rocksdb_deduct_balance(ledger, wop[w].address,
                            wop[w].amount, wop[w].timestamp)
             IN  IF res.ok
                 THEN /\ wdata' = [wdata EXCEPT ![w] = res.data]
                      /\ wpc' = [wpc EXCEPT ![w] = "put"]
                      /\ UNCHANGED wres
                 ELSE Finish(w, Result("insufficient", res.has, None))
    /\ overlap' = (overlap \/ Overlaps(w))
    /\ UNCHANGED <<backend, ledger, gatewayVars, ledger0, wop>>

\* RocksDB add_balance or deduct_balance: the put, and Ok(user_data.balance).
RocksPut(w) ==
    /\ backend = "rocksdb"
    /\ wpc[w] = "put"
    /\ ledger' = update_user(ledger, wop[w].address, wdata[w])
    /\ Finish(w, Result("ok", wdata[w].balance, None))
    /\ UNCHANGED <<backend, gatewayVars, ledger0, wop, overlap>>

\* DynamoDB add_balance or deduct_balance: one update_item.
DynamoUpdate(w) ==
    /\ backend = "dynamodb"
    /\ wpc[w] = "call"
    /\ \/ /\ wop[w].kind = "add_balance"
          /\ LET res == dynamodb_add_balance(ledger, wop[w].address,
                                             wop[w].amount)
             IN  /\ ledger' = res.db
                 /\ Finish(w, Result("ok", res.value, None))
       \/ /\ wop[w].kind = "deduct_balance"
          /\ LET res == dynamodb_deduct_balance(ledger, wop[w].address,
                            wop[w].amount, wop[w].timestamp)
             IN  /\ ledger' = res.db
                 /\ Finish(w, IF res.ok
                              THEN Result("ok", res.value, None)
                              ELSE Result("insufficient", res.has, None))
    /\ UNCHANGED <<backend, gatewayVars, ledger0, wop, overlap>>

\* A call fails on storage I/O and writes nothing.
StorageError(w) ==
    /\ wpc[w] \in {"call", "put"}
    /\ Finish(w, Result("error", 0, None))
    /\ overlap' = (overlap \/ (wpc[w] = "call" /\ Overlaps(w)))
    /\ UNCHANGED <<backend, ledger, gatewayVars, ledger0, wop>>

LedgerNext ==
    \E w \in Workers :
        \/ GetUser(w)
        \/ RocksGet(w)
        \/ RocksPut(w)
        \/ DynamoUpdate(w)
        \/ StorageError(w)

SpecLedger == LedgerInit /\ [][LedgerNext]_vars

\* ------------------------------------------- verifier-only specification
\* verify_signature applied to requests whose timestamps lie up to MaxDrift
\* seconds before or after the clock.

VerifierTimestamps == {MaxDrift, MaxDrift + 1}

\* What reaches verify_signature: requests signed under either spelling or by
\* another key; the requests of the client transport; and requests signed as
\* one thing and presented as another, with the body, the timestamp or the
\* address replaced.
Presented(q) ==
    {[q EXCEPT !.body = b] : b \in Bodies \ {q.body}}
    \cup {[q EXCEPT !.timestamp = t] : t \in VerifierTimestamps \ {q.timestamp}}
    \cup {[q EXCEPT !.address = a] : a \in Addresses \ {q.address}}

VerifierRequests ==
    {AuthRequest("0xaa", "0xaa", t) : t \in VerifierTimestamps}
    \cup {AuthRequest("0xAA", "0xaa", t) : t \in VerifierTimestamps}
    \cup {AuthRequest("0xaa", "0xbb", t) : t \in VerifierTimestamps}
    \cup {do_reqwest(k, b, t) : k \in Keys, b \in Bodies, t \in VerifierTimestamps}
    \cup UNION {Presented(AuthRequest("0xaa", "0xaa", t)) :
                    t \in VerifierTimestamps}

VerifierInit ==
    /\ backend = "rocksdb"
    /\ price = 1
    /\ ledger = [k \in Addresses |-> None]
    /\ ledger0 = ledger
    /\ now \in 0..(2 * MaxDrift)
    /\ signatures = {}
    /\ signature_cache = Unlocked
    /\ pc = [r \in Reqs |-> "verify_signature"]
    /\ req \in [Reqs -> VerifierRequests]
    /\ user_data = [r \in Reqs |-> None]
    /\ timestamp = [r \in Reqs |-> req[r].timestamp]
    /\ credit = [r \in Reqs |-> "none"]
    /\ debit = [r \in Reqs |-> "none"]
    /\ forwarded = [r \in Reqs |-> FALSE]
    /\ resp = [r \in Reqs |-> NoResponse]
    /\ at = [r \in Reqs |-> 0 - 1]
    /\ prior = [r \in Reqs |-> {}]
    /\ verified = [r \in Reqs |-> "none"]
    /\ settled = [r \in Reqs |-> "none"]
    /\ WorkersIdle
    /\ wop = [w \in Workers |-> Call("get_user", "0xaa", 0, 0)]

VerifierNext == \E r \in Reqs : VerifySignature(r)

SpecVerifier == VerifierInit /\ [][VerifierNext]_vars

\* ---------------------------------------------- cache-only specification
\* Direct callers of the SignatureCache: each makes one is_replay or one add,
\* in any order, while the clock advances.

CacheSignatures ==
    {AuthRequest(a, "0xaa", t).signature : a \in {"0xaa", "0xAA"},
                                          t \in Timestamps}

CacheCall(kind, signature) == [kind |-> kind, signature |-> signature]

CacheCalls ==
    {CacheCall(k, s) : k \in {"is_replay", "add"}, s \in CacheSignatures}

\* The instants the clock visits in the cache-only specification: those of
\* Times and the second after the start.
CacheTimes == Times \cup {1}

CacheInit ==
    /\ backend = "rocksdb"
    /\ price = 1
    /\ ledger = [k \in Addresses |-> None]
    /\ ledger0 = ledger
    /\ GatewayIdle
    /\ WorkersIdle
    /\ wop \in [Workers -> CacheCalls]

CacheTick ==
    /\ \E w \in Workers : wpc[w] = "call"
    /\ \E t \in CacheTimes : t > now /\ now' = t
    /\ UNCHANGED <<backend, price, ledger, signatures, pc, req, user_data,
                   timestamp, credit, debit, forwarded, resp, at, prior,
                   verified, settled, signature_cache,
                   workerVars>>

\* cache.is_replay(signature): the result and the clock reading are kept.
CacheIsReplay(w) ==
    /\ wpc[w] = "call"
    /\ wop[w].kind = "is_replay"
    /\ LET probe == is_replay(signatures, wop[w].signature, now)
       IN  /\ signatures' = probe.signatures
           /\ Finish(w, Result(IF probe.replay THEN "true" ELSE "false",
                               now, None))
    /\ UNCHANGED <<backend, price, now, ledger, pc, req, user_data,
                   timestamp, credit, debit, forwarded, resp, at, prior,
                   verified, settled, signature_cache,
                   ledger0, wop, overlap>>

\* cache.add(signature): the clock reading is kept.
CacheAdd(w) ==
    /\ wpc[w] = "call"
    /\ wop[w].kind = "add"
    /\ signatures' = add(signatures, wop[w].signature, now)
    /\ Finish(w, Result("added", now, None))
    /\ UNCHANGED <<backend, price, now, ledger, pc, req, user_data,
                   timestamp, credit, debit, forwarded, resp, at, prior,
                   verified, settled, signature_cache,
                   ledger0, wop, overlap>>

CacheNext ==
    \/ CacheTick
    \/ \E w \in Workers :
        \/ CacheIsReplay(w)
        \/ CacheAdd(w)

SpecCache == CacheInit /\ [][CacheNext]_vars

\* ------------------------------------------------- amounts as the code holds them
\* f64 arithmetic on the amounts of the deposit flow.  A positive double is a
\* record [bits, exp]: bits are the 53 bits of its significand, most
\* significant first and starting with 1, and its value is bits * 2^exp; zero
\* has no bits.  Results are rounded to nearest, ties to even, as the hardware
\* rounds them.  The amounts of the model are far from the subnormal and the
\* overflow range.

MICRO_PER_USDC == 1000000

F64Zero == [bits |-> <<>>, exp |-> 0]

\* The binary digits of a natural number below 2^30, most significant first.
BitsOf(n) ==
    IF n = 0 THEN <<>>
    ELSE LET len == CHOOSE l \in 1..30 : 2^(l - 1) <= n /\ n < 2^l
         IN  [i \in 1..len |-> (n \div 2^(len - i)) % 2]

StripZeros(b) ==
    IF \A i \in 1..Len(b) : b[i] = 0 THEN <<>>
    ELSE LET first == CHOOSE i \in 1..Len(b) :
                        b[i] = 1 /\ \A k \in 1..(i - 1) : b[k] = 0
         IN  SubSeq(b, first, Len(b))

\* b + 1 on bit strings; the result has one more bit when b is all ones.
Increment(b) ==
    IF \A i \in 1..Len(b) : b[i] = 1
    THEN <<1>> \o [i \in 1..Len(b) |-> 0]
    ELSE LET last == CHOOSE i \in 1..Len(b) :
                        b[i] = 0 /\ \A k \in (i + 1)..Len(b) : b[k] = 1
         IN  [i \in 1..Len(b) |->
                IF i < last THEN b[i] ELSE IF i = last THEN 1 ELSE 0]

\* The carry into position i of the sum of two bit strings of equal length
\* (position 0 is the carry out of the sum).
CarryInto(a, b, i) ==
    \E j \in (i + 1)..Len(a) :
        /\ a[j] = 1 /\ b[j] = 1
        /\ \A k \in (i + 1)..(j - 1) : a[k] + b[k] = 1

\* The sum of two bit strings of equal length, one bit longer.
AddBits(a, b) ==
    <<IF CarryInto(a, b, 0) THEN 1 ELSE 0>>
    \o [i \in 1..Len(a) |->
            (a[i] + b[i] + (IF CarryInto(a, b, i) THEN 1 ELSE 0)) % 2]

\* The double nearest to t * 2^exp, plus a positive amount below 2^exp when
\* `more`; t has no leading zero.  Ties go to the even significand.
RoundBits(t, more, exp) ==
    LET n == Len(t)
    IN  IF n = 0 THEN F64Zero
        ELSE IF n <= 53
        THEN [bits |-> t \o [i \in 1..(53 - n) |-> 0], exp |-> exp - (53 - n)]
        ELSE LET keep == SubSeq(t, 1, 53)
                 up   == /\ t[54] = 1
                         /\ \/ more
                            \/ \E i \in 55..n : t[i] = 1
                            \/ keep[53] = 1
                 c    == Increment(keep)
             IN  IF ~up THEN [bits |-> keep, exp |-> exp + (n - 53)]
                 ELSE IF Len(c) = 54
                 THEN [bits |-> SubSeq(c, 1, 53), exp |-> exp + (n - 53) + 1]
                 ELSE [bits |-> c, exp |-> exp + (n - 53)]

\* Long division, ten bits at a time: the next n groups of ten quotient bits
\* of rem / q, and the remainder left after them.  rem < q < 2^20.
RECURSIVE DivideChunks(_, _, _)
DivideChunks(rem, q, n) ==
    IF n = 0 THEN [digits |-> <<>>, rem |-> rem]
    ELSE LET rest == DivideChunks(((rem * 1024) % q), q, n - 1)
         IN  [digits |-> <<(rem * 1024) \div q>> \o rest.digits,
              rem |-> rest.rem]

\* p as f64 / q as f64 for natural numbers p < 2^30 and q < 2^20: the double
\* nearest to the quotient.
f64_div(p, q) ==
    LET d    == DivideChunks(p % q, q, 8)
        frac == [i \in 1..80 |->
                    (d.digits[((i - 1) \div 10) + 1] \div 2^(9 - ((i - 1) % 10))) % 2]
    IN  RoundBits(StripZeros(BitsOf(p \div q) \o frac), d.rem # 0, 0 - 80)

\* x + y on doubles: the double nearest to the sum.
f64_add(x, y) ==
    IF x.bits = <<>> THEN y
    ELSE IF y.bits = <<>> THEN x
    ELSE LET hi == IF x.exp >= y.exp THEN x ELSE y
             lo == IF x.exp >= y.exp THEN y ELSE x
             d  == hi.exp - lo.exp
             a  == hi.bits \o [i \in 1..d |-> 0]
             b  == [i \in 1..d |-> 0] \o lo.bits
         IN  RoundBits(StripZeros(AddBits(a, b)), FALSE, lo.exp)

\* amount_raw.parse::<u64>().map(|v| v as f64 / 1_000_000.0).unwrap_or(0.0)
f64_amount_usdc(value) ==
    IF value < 0 THEN F64Zero ELSE f64_div(value, MICRO_PER_USDC)

\* RocksDB add_balance on a ledger whose balances are doubles: the record it
\* puts.  UserData::new(0.0, 0) stands in for a missing record.
f64_add_balance(db, address, amount) ==
    LET found == get_user(db, address)
        data  == IF found.some THEN found ELSE UserData(F64Zero, 0)
    IN  UserData(f64_add(data.balance, amount), data.latest_timestamp)

\* ------------------------------------------ the credit of a deposit on its own
\* MaxWorkers deposits, one after the other, on the RocksDB backend: each is
\* the conversion of the value of its envelope and the add_balance that
\* follows the settlement.  Values are in micro-units; the record of 0xaa is
\* missing or holds what one earlier deposit left.

DepositValues == {100000, 200000, 700000}

DepositPayers == {"0xAA", "0xbb"}

AmountInit ==
    /\ backend = "rocksdb"
    /\ price = 1
    /\ ledger \in {[k \in Addresses |-> IF k = "0xaa" THEN rec ELSE None] :
                    rec \in {None} \cup {UserData(f64_amount_usdc(v), 0) :
                                            v \in DepositValues}}
    /\ ledger0 = ledger
    /\ GatewayIdle
    /\ WorkersIdle
    /\ wop \in [Workers -> {Call("deposit", a, v, 0) :
                                a \in DepositPayers, v \in DepositValues}]

CreditDeposit(w) ==
    /\ wpc[w] = "call"
    /\ wop[w].kind = "deposit"
    /\ LET amount == f64_amount_usdc(wop[w].amount)
           data   == f64_add_balance(ledger, wop[w].address, amount)
       IN  /\ ledger' = update_user(ledger, wop[w].address, data)
           /\ Finish(w, Result("ok", data.balance, None))
    /\ UNCHANGED <<backend, gatewayVars, ledger0, wop, overlap>>

AmountNext == \E w \in Workers : CreditDeposit(w)

SpecAmount == AmountInit /\ [][AmountNext]_vars

\* ------------------------------------------------- the relays on their own
\* The two handlers that forward a body to the node: relay_to_node of the
\* gateway and paid_relay of the paywalled server, each applied to an outcome
\* of the POST.

\* paid_relay: as relay_to_node, but the response to an answered POST is built
\* with StatusCode::OK.
paid_relay(u) ==
    IF u.kind = "connect failed"
    THEN Response("502", "failed to connect to node")
    ELSE IF u.kind = "read failed"
    THEN Response("502", "failed to read node response")
    ELSE Response("200", u.body)

UpstreamOutcomes ==
    {Upstream("answered", s, b) : s \in UpstreamStatuses,
                                  b \in {"upstream", "upstream error"}}
    \cup {Upstream("read failed", s, "") : s \in UpstreamStatuses}
    \cup {ConnectFailed}

RelayCall(handler, upstream) == [kind |-> handler, upstream |-> upstream]

RelayInit ==
    /\ backend = "rocksdb"
    /\ price = 1
    /\ ledger = [k \in Addresses |-> None]
    /\ ledger0 = ledger
    /\ GatewayIdle
    /\ WorkersIdle
    /\ wop \in [Workers -> {RelayCall(h, u) :
                                h \in {"relay_to_node", "paid_relay"},
                                u \in UpstreamOutcomes}]

GatewayRelay(w) ==
    /\ wpc[w] = "call"
    /\ wop[w].kind = "relay_to_node"
    /\ Finish(w, relay_to_node(wop[w].upstream))
    /\ UNCHANGED <<backend, ledger, gatewayVars, ledger0, wop, overlap>>

PaidRelay(w) ==
    /\ wpc[w] = "call"
    /\ wop[w].kind = "paid_relay"
    /\ Finish(w, paid_relay(wop[w].upstream))
    /\ UNCHANGED <<backend, ledger, gatewayVars, ledger0, wop, overlap>>

RelayNext == \E w \in Workers : GatewayRelay(w) \/ PaidRelay(w)

SpecRelay == RelayInit /\ [][RelayNext]_vars

\* ============================================================== claims
\* ---------------------------------------------------------------- C1

\* An authenticated request was accepted: debited and handed to relay_to_node.
Accepted(r) == req[r].kind = "auth" /\ debit[r] = "ok" /\ forwarded[r]

\* C1: in any interleaving of authenticated requests, at most one request
\* carrying a given signature is accepted within the 120 s ttl of the
\* signature: two accepted requests with one signature entered the cache at
\* least ttl apart.
C1_AtMostOneAcceptedPerSignature ==
    \A r1, r2 \in Reqs :
        (r1 # r2 /\ Accepted(r1) /\ Accepted(r2)
         /\ req[r1].signature = req[r2].signature)
        => abs_diff(at[r1], at[r2]) >= ttl

\* ---------------------------------------------------------------- C5

\* C5: in every reachable state, under any interleaving of the credits and
\* debits of both flows, every balance stored in the ledger is >= 0.
C5_BalanceNeverNegative ==
    \A k \in Addresses : ledger[k].balance >= 0

\* A deposit was credited, an authenticated request was debited, and the
\* debits have brought the record of 0xaa down to exactly 0.
C5_Witness ==
    /\ \E r \in Reqs : req[r].kind = "payment" /\ credit[r] = "ok"
    /\ \E r \in Reqs : req[r].kind = "auth" /\ debit[r] = "ok"
    /\ ledger["0xaa"].some /\ ledger["0xaa"].balance = 0

\* ---------------------------------------------------------------- C7

\* C7: once an authenticated request was debited, every request with the same
\* signature that arrives after it was answered, at whatever later time, is
\* never debited.
C7_NoLaterDebitOfSameSignature ==
    \A r1, r2 \in Reqs :
        (r1 \in prior[r2] /\ req[r1].kind = "auth" /\ debit[r1] = "ok"
         /\ req[r2].kind = "auth"
         /\ req[r2].signature = req[r1].signature)
        => debit[r2] # "ok"

\* ---------------------------------------------------------------- C8

ReplayDetected == Response("401", "replay detected")

\* r2 arrived after r1 was answered, r1 was debited and forwarded, and r2 is
\* the same request byte for byte.
ReplayOf(r1, r2) ==
    /\ r1 \in prior[r2]
    /\ Accepted(r1)
    /\ req[r2] = req[r1]

\* C8: a request identical to one that completed successfully before it
\* arrived, and that probes the cache less than ttl after the first was
\* remembered, is answered 401 "replay detected" by that probe, and a request
\* so answered is neither debited nor forwarded.
C8_SequentialReplayRejected ==
    /\ [][\A r1, r2 \in Reqs :
            (ReplayOf(r1, r2) /\ pc[r2] = "is_replay" /\ pc'[r2] # "is_replay"
             /\ now - at[r1] < ttl)
            => (pc'[r2] = "done" /\ resp'[r2] = ReplayDetected)]_vars
    /\ [](\A r \in Reqs :
            resp[r] = ReplayDetected
            => (pc[r] = "done" /\ debit[r] = "none" /\ ~forwarded[r]))

C8_Witness ==
    \E r1, r2 \in Reqs :
        ReplayOf(r1, r2) /\ resp[r2] = ReplayDetected /\ now - at[r1] < ttl

\* ---------------------------------------------------------------- C9

\* C9: in the authenticated flow a body is forwarded only if the debit made
\* for that request succeeded, and after any ledger error (InsufficientBalance
\* or a storage failure) the answer is the 402 of request_payment and nothing
\* is forwarded.
C9_ForwardOnlyAfterDebit ==
    \A r \in Reqs :
        req[r].kind = "auth" =>
            /\ (forwarded[r] \/ pc[r] = "relay_to_node") => debit[r] = "ok"
            /\ debit[r] \in {"insufficient", "error"}
               => (pc[r] = "done" /\ resp[r] = request_payment
                   /\ ~forwarded[r])

\* One authenticated request hit a storage failure and got 402, another was
\* debited and forwarded.
C9_Witness ==
    \E r1, r2 \in Reqs :
        /\ req[r1].kind = "auth" /\ debit[r1] = "error"
        /\ resp[r1] = request_payment
        /\ Accepted(r2)

\* --------------------------------------------------------------- C10

BalanceOf(db, address) == unwrap_or_new(get_user(db, address)).balance

\* C10: when a validly signed request reaches deduct_balance while the balance
\* of its address is below price_per_request (or the address has no record),
\* it is answered 402 and the step leaves the whole ledger as it was.
C10_InsufficientLeavesLedger ==
    [][\A r \in Reqs :
        (req[r].kind = "auth" /\ pc[r] = "deduct_balance"
         /\ pc'[r] # "deduct_balance"
         /\ BalanceOf(ledger, req[r].address) < price)
        => (pc'[r] = "done" /\ resp'[r] = request_payment
            /\ ledger' = ledger)]_vars

\* A validly signed request on an address without a record was refused with
\* 402 and the address still has no record.
C10_Witness ==
    \E r \in Reqs :
        /\ req[r].kind = "auth" /\ debit[r] = "insufficient"
        /\ resp[r] = request_payment
        /\ ~get_user(ledger, req[r].address).some

\* ------------------------------------------- ledger claims (SpecLedger)

AllDone == \A w \in Workers : wpc[w] = "done"

NoStorageError == \A w \in Workers : wres[w].status # "error"

DebitWorkers == {w \in Workers : wop[w].kind = "deduct_balance"}

Succeeded == {w \in Workers : wres[w].status = "ok"}

\* The calls are debits of one amount a on an address that has a record, and
\* nothing else but reads.
DebitsOf(a) ==
    /\ ledger0["0xaa"].some
    /\ DebitWorkers # {}
    /\ \A w \in Workers : wop[w].kind \in {"deduct_balance", "get_user"}
    /\ \A w \in DebitWorkers : wop[w].amount = a

\* ---------------------------------------------------------------- C2

\* C2: N concurrent debits of a > 0 against a balance B < N * a: exactly
\* floor(B / a) of them succeed and the final balance is B mod a.
C2_OverdrawnConcurrentDebits ==
    \A a \in 1..MaxAmount :
        LET B == ledger0["0xaa"].balance
            N == Cardinality(DebitWorkers)
        IN  (AllDone /\ NoStorageError /\ DebitsOf(a) /\ N * a > B)
            => /\ Cardinality(DebitWorkers \cap Succeeded) = B \div a
               /\ BalanceOf(ledger, "0xaa") = B % a

\* ---------------------------------------------------------------- C3

\* C3: N concurrent debits of a against a balance B >= N * a: all N succeed
\* and the final balance is B - N * a.
C3_CoveredConcurrentDebits ==
    \A a \in 0..MaxAmount :
        LET B == ledger0["0xaa"].balance
            N == Cardinality(DebitWorkers)
        IN  (AllDone /\ NoStorageError /\ DebitsOf(a) /\ N * a <= B)
            => /\ DebitWorkers \subseteq Succeeded
               /\ BalanceOf(ledger, "0xaa") = B - N * a

\* ---------------------------------------------------------------- C4

\* The orders in which the callers can be lined up.
Orders ==
    {o \in [Workers -> Workers] :
        \A i, j \in Workers : o[i] = o[j] => i = j}

\* One call run alone, from its read to its write.
Alone(db, call) ==
    CASE call.kind = "get_user" ->
            [db |-> db, res |-> Result("ok", 0, get_user(db, call.address))]
      [] call.kind = "add_balance" /\ backend = "rocksdb" ->
            LET data == rocksdb_add_balance(db, call.address, call.amount)
            IN  [db |-> update_user(db, call.address, data),
                 res |-> Result("ok", data.balance, None)]
      [] call.kind = "add_balance" /\ backend = "dynamodb" ->
            LET r == dynamodb_add_balance(db, call.address, call.amount)
            IN  [db |-> r.db, res |-> Result("ok", r.value, None)]
      [] call.kind = "deduct_balance" /\ backend = "rocksdb" ->
            LET r == rocksdb_deduct_balance(db, call.address, call.amount,
                                            call.timestamp)
            IN  IF r.ok
                THEN [db |-> update_user(db, call.address, r.data),
                      res |-> Result("ok", r.data.balance, None)]
                ELSE [db |-> db, res |-> Result("insufficient", r.has, None)]
      [] call.kind = "deduct_balance" /\ backend = "dynamodb" ->
            LET r == dynamodb_deduct_balance(db, call.address, call.amount,
                                             call.timestamp)
            IN  [db |-> r.db,
                 res |-> IF r.ok THEN Result("ok", r.value, None)
                                 ELSE Result("insufficient", r.has, None)]

\* The ledger and the results after the first n calls of an order, one by one.
RECURSIVE Serial(_, _, _)
Serial(db, order, n) ==
    IF n = 0
    THEN [db |-> db, res |-> [w \in Workers |-> NoResult]]
    ELSE LET before == Serial(db, order, n - 1)
             step   == Alone(before.db, wop[order[n]])
         IN  [db |-> step.db,
              res |-> [before.res EXCEPT ![order[n]] = step.res]]

\* C4: credits and debits on one address are linearizable: what the concurrent
\* calls returned and the balance they left is what they return and leave when
\* run one at a time in some order.
C4_Linearizable ==
    (AllDone /\ NoStorageError)
    => \E o \in Orders :
          LET s == Serial(ledger0, o, MaxWorkers)
          IN  /\ BalanceOf(s.db, "0xaa") = BalanceOf(ledger, "0xaa")
              /\ s.res = wres

\* ---------------------------------------------------------------- C6

RECURSIVE Sum(_, _)
Sum(f, n) == IF n = 0 THEN 0 ELSE f[n] + Sum(f, n - 1)

Credited ==
    [w \in Workers |->
        IF wop[w].kind = "add_balance" /\ wres[w].status = "ok"
        THEN wop[w].amount ELSE 0]

Debited ==
    [w \in Workers |->
        IF wop[w].kind = "deduct_balance" /\ wres[w].status = "ok"
        THEN wop[w].amount ELSE 0]

C11_RememberOnlyAfterDebit ==
    /\ \A e \in signatures :
          \E r \in Reqs :
              /\ ~has_payment_header(req[r])
              /\ req[r].signature = e[1]
              /\ debit[r] = "ok"
              /\ at[r] = e[2]
    /\ \A r \in Reqs :
          (resp[r].status \in {"401", "402"} \/ debit[r] # "ok")
          => at[r] = 0 - 1

\* A request failed on its debit and got 402; the same request, sent again,
\* was not reported as a replay and was accepted.
C11_Witness ==
    \E r1, r2 \in Reqs :
        /\ r1 \in prior[r2]
        /\ req[r1].kind = "auth" /\ req[r2] = req[r1]
        /\ debit[r1] \in {"insufficient", "error"}
        /\ resp[r1] = request_payment
        /\ Accepted(r2) /\ at[r2] >= 0

\* ---------------------------------------------------------------- C12

\* The steps of the authenticated flow.
AuthLabels == {"is_replay", "verify_signature", "add"}

\* One of the three X-Auth headers is missing or the timestamp is no decimal.
IncompleteAuth(q) ==
    q.address = "" \/ q.signature = NoSignature \/ q.timestamp < 0

\* C12: a request with an X-Payment header always enters the deposit flow,
\* whatever X-Auth headers it carries, and never the authenticated flow; a
\* request without X-Payment whose X-Auth headers are incomplete or whose
\* timestamp is not an unsigned decimal is answered 402 at once, and changes
\* neither the ledger nor the replay cache.
C12_Dispatch ==
    /\ [][\A r \in Reqs :
            (pc[r] = "idle" /\ pc'[r] # "idle") =>
                /\ req'[r].x_payment =>
                      \/ pc'[r] = "verify_payment"
                      \/ /\ pc'[r] = "done"
                         /\ resp'[r] = Response("x402",
                                                "payment extraction failed")
                /\ (~req'[r].x_payment /\ IncompleteAuth(req'[r])) =>
                      /\ pc'[r] = "done"
                      /\ resp'[r] = request_payment
                      /\ ledger' = ledger
                      /\ signatures' = signatures]_vars
    /\ [](\A r \in Reqs :
            /\ req[r].x_payment => (pc[r] \notin AuthLabels /\ at[r] = 0 - 1)
            /\ (~req[r].x_payment /\ IncompleteAuth(req[r]) /\ pc[r] # "idle")
               => /\ pc[r] = "done" /\ resp[r] = request_payment
                  /\ credit[r] = "none" /\ debit[r] = "none"
                  /\ ~forwarded[r] /\ at[r] = 0 - 1)

\* A deposit carrying valid X-Auth headers was credited, and a request whose
\* X-Auth-Timestamp is not a decimal was answered 402.
C12_Witness ==
    \E r1, r2 \in Reqs :
        /\ req[r1].x_payment /\ extract_auth_headers(req[r1])
        /\ credit[r1] = "ok"
        /\ ~req[r2].x_payment /\ req[r2].timestamp = BadTimestamp
        /\ resp[r2] = request_payment

\* ---------------------------------------------------------------- C13

\* The steps of the deposit flow that follow a successful settle.
AfterSettleLabels == {"add_balance", "add_put"}

SettlementFailed == Response("x402", "payment settlement failed")

C14_NothingBeforeVerify ==
    \A r \in Reqs :
        req[r].x_payment =>
            /\ (settled[r] # "none" \/ credit[r] # "none" \/ debit[r] # "none"
                \/ forwarded[r]
                \/ pc[r] \notin {"idle", "verify_payment", "done"})
               => verified[r] = "ok"
            /\ (verified[r] = "failed"
                \/ (pc[r] # "idle" /\ ~req[r].envelope_ok))
               => /\ pc[r] = "done" /\ resp[r].status = "x402"
                  /\ settled[r] = "none" /\ credit[r] = "none"
                  /\ debit[r] = "none" /\ ~forwarded[r]

\* One deposit failed verification and was answered with the failure; another
\* was verified, settled and forwarded.
C14_Witness ==
    \E r1, r2 \in Reqs :
        /\ verified[r1] = "failed"
        /\ resp[r1] = Response("x402", "payment verification failed")
        /\ verified[r2] = "ok" /\ settled[r2] = "ok" /\ forwarded[r2]

\* ---------------------------------------------------------------- C15

\* No request other than r has written to the ledger.
OnlyWriter(r) ==
    \A o \in Reqs : o # r => (credit[o] # "ok" /\ debit[o] # "ok")

\* The deposit of r was verified and settled, its ledger calls met no storage
\* failure, and r has returned.
DepositCompleted(r) ==
    /\ req[r].x_payment /\ pc[r] = "done"
    /\ verified[r] = "ok" /\ settled[r] = "ok"
    /\ credit[r] # "error" /\ debit[r] # "error"

\* C15: a deposit of v >= price_per_request for a payer without a record,
\* verified and settled, leaves the payer with balance v - price_per_request
\* and latest_timestamp the server time read for the debit (never a header of
\* the request), and returns what relay_to_node returned.
C15_DepositThenUse ==
    /\ [][\A r \in Reqs :
            (req[r].x_payment /\ pc[r] # "deduct_balance"
             /\ pc'[r] = "deduct_balance")
            => timestamp'[r] = now]_vars
    /\ [](\A r \in Reqs :
            (/\ DepositCompleted(r)
             /\ OnlyWriter(r)
             /\ amount_usdc(req[r].value) >= price
             /\ ~get_user(ledger0, req[r].payer).some)
            => /\ credit[r] = "ok" /\ debit[r] = "ok"
               /\ get_user(ledger, req[r].payer)
                  = UserData(amount_usdc(req[r].value) - price, timestamp[r])
               /\ forwarded[r]
               /\ resp[r].reason \in {"upstream", "failed to connect to node"})

\* A deposit of MaxValue for a payer without a record went through at a time
\* after the start, and the upstream answered 200.
C15_Witness ==
    \E r \in Reqs :
        /\ DepositCompleted(r) /\ OnlyWriter(r)
        /\ ~get_user(ledger0, req[r].payer).some
        /\ get_user(ledger, req[r].payer)
           = UserData(MaxValue - price, timestamp[r])
        /\ timestamp[r] > 0
        /\ resp[r] = Response("200", "upstream")

\* ---------------------------------------------------------------- C16

BadGateway == Response("502", "failed to connect to node")

\* C16: when the upstream call of an authenticated request fails in the
\* transport, the answer is the synthesized 502, the step refunds nothing, the
\* request was debited and never credits, and its signature was remembered and
\* is in the replay cache for as long as the entry has not expired; with no
\* other writer the address is left exactly one price short.
C16_UpstreamFailureKeepsDebit ==
    /\ [][\A r \in Reqs :
            (~req[r].x_payment /\ pc[r] = "relay_to_node"
             /\ resp'[r] = BadGateway)
            => /\ pc'[r] = "done"
               /\ ledger' = ledger
               /\ now - at[r] < ttl
                  => contains_key(signatures', req[r].signature)]_vars
    /\ [](\A r \in Reqs :
            (~req[r].x_payment /\ resp[r] = BadGateway)
            => /\ pc[r] = "done" /\ forwarded[r]
               /\ debit[r] = "ok" /\ credit[r] = "none"
               /\ at[r] >= 0
               /\ OnlyWriter(r)
                  => BalanceOf(ledger, req[r].address)
                     = BalanceOf(ledger0, req[r].address) - price)

\* An authenticated request was debited, its upstream call failed, it got the
\* 502, the address is one price short and the signature is in the cache.
C16_Witness ==
    \E r \in Reqs :
        /\ req[r].kind = "auth" /\ resp[r] = BadGateway
        /\ debit[r] = "ok" /\ OnlyWriter(r)
        /\ BalanceOf(ledger, req[r].address)
           = BalanceOf(ledger0, req[r].address) - price
        /\ contains_key(signatures, req[r].signature)

\* ---------------------------------------------------------------- C17

\* C17: in the deposit flow, when the debit that follows a successful credit
\* fails, the failing step writes nothing and the request goes on to
\* relay_to_node; it is forwarded and answered with what relay_to_node returns.
C17_DepositDebitFailureNotFatal ==
    /\ [][\A r \in Reqs :
            (req[r].x_payment /\ pc[r] \in {"deduct_balance", "deduct_put"}
             /\ debit'[r] \in {"insufficient", "error"})
            => /\ pc'[r] = "relay_to_node"
               /\ ledger' = ledger]_vars
    /\ [](\A r \in Reqs :
            (req[r].x_payment /\ debit[r] \in {"insufficient", "error"})
            => /\ settled[r] = "ok" /\ credit[r] = "ok"
               /\ pc[r] \in {"relay_to_node", "done"}
               /\ pc[r] = "done"
                  => /\ forwarded[r]
                     /\ resp[r].reason \in {"upstream",
                                            "failed to connect to node"}
               /\ OnlyWriter(r)
                  => BalanceOf(ledger, req[r].payer)
                     = BalanceOf(ledger0, req[r].payer)
                       + amount_usdc(req[r].value))

\* A deposit of MaxValue was credited, its own debit failed on storage, the
\* body was forwarded and the upstream answer returned; the credit is there.
C17_Witness ==
    \E r \in Reqs :
        /\ req[r].x_payment /\ credit[r] = "ok" /\ debit[r] = "error"
        /\ req[r].value = MaxValue /\ OnlyWriter(r)
        /\ resp[r] = Response("200", "upstream")
        /\ BalanceOf(ledger, req[r].payer)
           = BalanceOf(ledger0, req[r].payer) + MaxValue

\* ---------------------------------------------------------------- C18

\* C18: in the deposit flow, a verified envelope that lacks the payer or lacks
\* the value is answered 400, and it is neither settled nor credited nor
\* debited nor forwarded.
C18_MissingPayerOrValueRejected ==
    \A r \in Reqs :
        (req[r].x_payment /\ verified[r] = "ok"
         /\ (req[r].payer = "" \/ req[r].value < 0))
        => /\ pc[r] = "done"
           /\ resp[r] = Response("400", "Invalid payment format")
           /\ settled[r] = "none" /\ credit[r] = "none"
           /\ debit[r] = "none" /\ ~forwarded[r]

\* ------------------------------------------ verifier claims (SpecVerifier)

\* ---------------------------------------------------------------- C19

OutsideWindow == Response("401", "timestamp outside window")

\* C19: the verifier accepts the timestamp of a request iff it lies at most
\* 60 seconds from the clock, before or after it: with a valid signature the
\* request passes iff the drift is <= 60, and a drift above 60 is answered 401.
C19_TimestampWindow ==
    \A r \in Reqs :
        pc[r] # "verify_signature" =>
            LET drift == abs_diff(now, req[r].timestamp)
                valid == req[r].signature
                         = Sign(to_lowercase(req[r].address),
                                Message(req[r].address, req[r].timestamp,
                                        req[r].body))
            IN  /\ (resp[r] # OutsideWindow) <=> (drift <= 60)
                /\ valid => ((pc[r] = "deduct_balance") <=> (drift <= 60))
                /\ drift > 60 => (pc[r] = "done" /\ resp[r].status = "401")

\* A timestamp exactly 60 s ahead of the clock was accepted and one 61 s ahead
\* was refused.
C19_Witness ==
    \E r1, r2 \in Reqs :
        /\ req[r1].timestamp - now = 60 /\ pc[r1] = "deduct_balance"
        /\ req[r2].timestamp - now = 61 /\ resp[r2] = OutsideWindow

\* ------------------------------------------------ cache claims (SpecCache)

\* ---------------------------------------------------------------- C20

\* An add of the signature s was made less than ttl before the clock's reading.
Young(s) ==
    \E a \in Workers :
        /\ wpc[a] = "done" /\ wop[a] = CacheCall("add", s)
        /\ now - wres[a].value < ttl

\* C20: an is_replay(s) returns true iff an add(s) was made less than ttl
\* before it, whatever other signatures were probed or added in between, and
\* when it returns false the cache holds no entry for s.
C20_TtlBehaviour ==
    [][\A w \in Workers :
        (wpc[w] = "call" /\ wpc'[w] = "done" /\ wop[w].kind = "is_replay")
        => /\ wres'[w].status = IF Young(wop[w].signature)
                                THEN "true" ELSE "false"
           /\ contains_key(signatures', wop[w].signature)
              = Young(wop[w].signature)]_vars

\* add(s), then an operation on another signature made at a later instant,
\* then is_replay(s) = true at age ttl - 1.
C20_Witness ==
    \E a, b, c \in Workers :
        /\ wpc[a] = "done" /\ wpc[b] = "done" /\ wpc[c] = "done"
        /\ wop[a].kind = "add"
        /\ wop[b].signature # wop[a].signature
        /\ wop[c] = CacheCall("is_replay", wop[a].signature)
        /\ wres[a].value < wres[b].value
        /\ wres[b].value <= wres[c].value
        /\ wres[c].value - wres[a].value = ttl - 1
        /\ wres[c].status = "true"

\* ---------------------------------------------------------------------- C21
\* C21: when the handler task of an authenticated request was dropped after its
\* debit was committed, a later request with the same headers and body, arriving
\* while the cache still holds what it was given, is answered 401 "replay
\* detected" and is not debited.
C21_RetryAfterAbortRejected ==
    \A r1, r2 \in Reqs :
        (/\ r1 \in prior[r2] /\ pc[r1] = "dropped"
         /\ ~has_payment_header(req[r1]) /\ debit[r1] = "ok"
         /\ req[r2] = req[r1] /\ now < ttl
         /\ pc[r2] \notin {"idle", "is_replay"})
        => (resp[r2] = ReplayDetected /\ debit[r2] = "none")

\* ---------------------------------------------------------------------- C22
\* C22: a debit that no other call overlaps succeeds exactly when the balance is
\* at least the amount.  On success it returns balance - amount and the record
\* becomes that balance with the timestamp of the call; on failure it returns
\* InsufficientBalance and the ledger is as before.  (On RocksDB an address
\* without a record counts as balance 0; on DynamoDB the claim is taken for
\* addresses that have a record.)
C22_DebitSemantics ==
    [][\A w \in Workers :
        (/\ wop[w].kind = "deduct_balance"
         /\ wpc[w] # "done" /\ wpc'[w] = "done"
         /\ wres'[w].status # "error" /\ ~overlap'
         /\ (backend = "dynamodb" => get_user(ledger, wop[w].address).some))
        => LET before == BalanceOf(ledger, wop[w].address)
               amount == wop[w].amount
           IN  IF before >= amount
               THEN /\ wres'[w] = Result("ok", before - amount, None)
                    /\ get_user(ledger', wop[w].address)
                         = UserData(before - amount, wop[w].timestamp)
               ELSE /\ wres'[w].status = "insufficient"
                    /\ ledger' = ledger]_vars

\* A debit of exactly the balance succeeded and left 0 with its timestamp, and
\* after it a debit of one unit failed.
C22_Witness ==
    /\ ~overlap /\ AllDone
    /\ \E w1, w2, w3 \in Workers :
        /\ wop[w1].kind = "deduct_balance" /\ wop[w1].amount > 0
        /\ wop[w1].amount = ledger0["0xaa"].balance
        /\ wres[w1] = Result("ok", 0, None)
        /\ wop[w2].kind = "deduct_balance" /\ wop[w2].amount = 1
        /\ wres[w2].status = "insufficient"
        /\ wop[w3].kind = "get_user"
        /\ get_user(ledger, "0xaa") = UserData(0, wop[w1].timestamp)

\* ---------------------------------------------------------------------- C23
\* C23: of the calls that no other call overlaps, a get returns the record of
\* the address, absent when nothing was written; a credit on an address without
\* a record creates it with balance = amount and latest_timestamp = 0; a credit
\* on a record adds the amount and leaves latest_timestamp; a credit returns the
\* balance it stored.
C23_CreditSemantics ==
    [][\A w \in Workers :
        (/\ wpc[w] # "done" /\ wpc'[w] = "done"
         /\ wres'[w].status # "error" /\ ~overlap')
        => LET before == get_user(ledger, wop[w].address)
               after  == get_user(ledger', wop[w].address)
               amount == wop[w].amount
           IN  /\ wop[w].kind = "get_user"
                    => /\ wres'[w].data = before
                       /\ ledger' = ledger
               /\ wop[w].kind = "add_balance"
                    => /\ after = IF before.some
                                  THEN UserData(before.balance + amount,
                                                before.latest_timestamp)
                                  ELSE UserData(amount, 0)
                       /\ wres'[w] = Result("ok", after.balance, None)]_vars

\* Starting without a record: a credit created the record and returned its
\* amount, a debit stamped the record, and a second credit added to it and kept
\* the stamp.
C23_Witness ==
    /\ ~overlap
    /\ ~ledger0["0xaa"].some
    /\ \E w1, w2, w3 \in Workers :
        /\ w1 # w2
        /\ wop[w1].kind = "add_balance" /\ wop[w1].amount > 0
        /\ wres[w1] = Result("ok", wop[w1].amount, None)
        /\ wop[w3].kind = "deduct_balance" /\ wop[w3].amount > 0
        /\ wres[w3] = Result("ok", wop[w1].amount - wop[w3].amount, None)
        /\ wop[w2].kind = "add_balance" /\ wop[w2].amount > 0
        /\ wres[w2] = Result("ok", wres[w3].value + wop[w2].amount, None)
        /\ get_user(ledger, "0xaa")
             = UserData(wres[w2].value, wop[w3].timestamp)

\* ---------------------------------------------------------------------- C24
\* One call run alone on backend b, from its read to its write.
AloneOn(b, db, call) ==
    CASE call.kind = "get_user" ->
            [db |-> db, res |-> Result("ok", 0, get_user(db, call.address))]
      [] call.kind = "add_balance" /\ b = "rocksdb" ->
            LET data == rocksdb_add_balance(db, call.address, call.amount)
            IN  [db |-> update_user(db, call.address, data),
                 res |-> Result("ok", data.balance, None)]
      [] call.kind = "add_balance" /\ b = "dynamodb" ->
            LET r == dynamodb_add_balance(db, call.address, call.amount)
            IN  [db |-> r.db, res |-> Result("ok", r.value, None)]
      [] call.kind = "deduct_balance" /\ b = "rocksdb" ->
            LET r == rocksdb_deduct_balance(db, call.address, call.amount,
                                            call.timestamp)
            IN  IF r.ok
                THEN [db |-> update_user(db, call.address, r.data),
                      res |-> Result("ok", r.data.balance, None)]
                ELSE [db |-> db, res |-> Result("insufficient", r.has, None)]
      [] call.kind = "deduct_balance" /\ b = "dynamodb" ->
            LET r == dynamodb_deduct_balance(db, call.address, call.amount,
                                             call.timestamp)
            IN  [db |-> r.db,
                 res |-> IF r.ok THEN Result("ok", r.value, None)
                                 ELSE Result("insufficient", r.has, None)]

OtherBackend == IF backend = "rocksdb" THEN "dynamodb" ELSE "rocksdb"

\* C24: in a run where no two calls overlap, every call returns what the other
\* backend returns for it on the same ledger (the same value, or the same kind
\* of error) and leaves the ledger the other backend leaves.
C24_BackendsAgree ==
    [][\A w \in Workers :
        (/\ wpc[w] # "done" /\ wpc'[w] = "done"
         /\ wres'[w].status # "error" /\ ~overlap')
        => LET other == AloneOn(OtherBackend, ledger, wop[w])
           IN  /\ other.db = ledger'
               /\ other.res.status = wres'[w].status
               /\ wres'[w].status = "ok" => other.res = wres'[w]]_vars

\* ---------------------------------------------------------------------- C25
\* C25: records are kept under the lower-case spelling only, and a deposit whose
\* envelope spells the payer 0xAA credits the record that an authenticated
\* request with X-Auth-Address 0xaa is debited from: after such a deposit of at
\* least twice the price into an account that had no record, the authenticated
\* request that follows is debited, and the record holds the value less the two
\* prices.
C25_CaseInsensitiveKeys ==
    /\ \A a \in Addresses : ledger[a].some => a \in Keys
    /\ \A r1, r2 \in Reqs :
        (/\ r1 \in prior[r2] /\ pc[r1] = "done"
         /\ has_payment_header(req[r1]) /\ req[r1].payer = "0xAA"
         /\ credit[r1] = "ok" /\ debit[r1] = "ok"
         /\ amount_usdc(req[r1].value) >= 2 * price
         /\ ~ledger0["0xaa"].some
         /\ ~has_payment_header(req[r2]) /\ req[r2].address = "0xaa"
         /\ debit[r2] \notin {"none", "error"})
        => /\ debit[r2] = "ok"
           /\ ledger["0xaa"].balance = amount_usdc(req[r1].value) - 2 * price

C25_Witness ==
    \E r1, r2 \in Reqs :
        /\ r1 \in prior[r2] /\ pc[r1] = "done"
        /\ has_payment_header(req[r1]) /\ req[r1].payer = "0xAA"
        /\ credit[r1] = "ok" /\ debit[r1] = "ok"
        /\ amount_usdc(req[r1].value) >= 2 * price
        /\ ~ledger0["0xaa"].some
        /\ ~has_payment_header(req[r2]) /\ req[r2].address = "0xaa"
        /\ debit[r2] = "ok"
        /\ ledger["0xaa"] = UserData(amount_usdc(req[r1].value) - 2 * price,
                                     req[r2].timestamp)
        /\ ~ledger["0xAA"].some

\* ---------------------------------------------------------------------- C26
\* C26: the request the client transport builds for a key, a body and a reading
\* of its clock passes verify_signature whenever the gateway's clock is within
\* 60 seconds of that reading.
C26_WireSymmetry ==
    \A r \in Reqs : \A k \in Keys, b \in Bodies, t \in VerifierTimestamps :
        (/\ req[r] = do_reqwest(k, b, t)
         /\ pc[r] # "verify_signature"
         /\ abs_diff(now, t) <= TIMESTAMP_WINDOW_SECS)
        => pc[r] = "deduct_balance"

\* A request of the transport whose address header has upper-case letters was
\* accepted at a drift of exactly 60 seconds.
C26_Witness ==
    \E r \in Reqs : \E b \in Bodies, t \in VerifierTimestamps :
        /\ req[r] = do_reqwest("0xaa", b, t)
        /\ req[r].address # to_lowercase(req[r].address)
        /\ abs_diff(now, t) = TIMESTAMP_WINDOW_SECS
        /\ pc[r] = "deduct_balance"

\* ---------------------------------------------------------------------- C27
\* The signature of a request was made by the key of its address over the
\* address, timestamp and body it is presented with.
Genuine(q) ==
    /\ q.signature.signer = parse_address(q.address)
    /\ q.signature.message = <<q.address, q.timestamp, <<"keccak256", q.body>>>>

\* C27: verify_signature succeeds iff the signature was made by the key of the
\* claimed address over the presented address, timestamp and body, and the
\* timestamp is at most 60 seconds from the clock; everything else, a signature
\* presented with another body, address or timestamp included, is answered 401.
C27_VerifierExact ==
    \A r \in Reqs :
        pc[r] # "verify_signature" =>
            /\ (pc[r] = "deduct_balance")
                 <=> (Genuine(req[r])
                      /\ abs_diff(now, req[r].timestamp) <= TIMESTAMP_WINDOW_SECS)
            /\ pc[r] # "deduct_balance"
                 => (pc[r] = "done" /\ resp[r].status = "401")

\* Inside the window, a signature presented with the body it was made over was
\* accepted and the same signature presented with another body was refused.
C27_Witness ==
    \E r1, r2 \in Reqs :
        /\ Genuine(req[r1]) /\ pc[r1] = "deduct_balance"
        /\ req[r2] = [req[r1] EXCEPT !.body = "other body"]
        /\ req[r2] # req[r1]
        /\ resp[r2] = Response("401", "address mismatch")

\* ---------------------------------------------------------------------- C28
\* The balances that are whole tenths of a USDC, in micro-units.
MicroBalances == {k * 100000 : k \in 0..30}

\* C28: the credit of a deposit changes the record of the payer only, and the
\* balance it leaves is the balance before plus the value of the envelope: when
\* the balance before is b micro-units, the balance after is b + value
\* micro-units.
C28_DepositCreditsExactValue ==
    [][\A w \in Workers :
        (wop[w].kind = "deposit" /\ wpc[w] = "call" /\ wpc'[w] = "done")
        => LET key == to_lowercase(wop[w].address)
           IN  /\ \A k \in Addresses \ {key} : ledger'[k] = ledger[k]
               /\ \A b \in MicroBalances :
                    (IF ledger[key].some
                     THEN ledger[key].balance = f64_div(b, MICRO_PER_USDC)
                     ELSE b = 0)
                    => ledger'[key].balance
                        = f64_div(b + wop[w].amount, MICRO_PER_USDC)]_vars

\* ---------------------------------------------------------------------- C29
\* C29: when the node answered, the handler returns the status and the body of
\* the node, whatever the status; when the send or the read of the body failed
\* it returns 502.
C29_UpstreamPassThrough ==
    \A w \in Workers :
        (wpc[w] = "done" /\ wop[w].kind \in {"relay_to_node", "paid_relay"})
        => LET u == wop[w].upstream
           IN  IF u.kind = "answered"
               THEN wres[w] = Response(u.status, u.body)
               ELSE wres[w].status = "502" /\ wres[w].reason # u.body

\* ---------------------------------------------------------------------- C30
\* C30: an entry is evicted only when its age is strictly greater than the ttl:
\* an is_replay(s) made at most ttl after an add(s), at exactly ttl included,
\* returns true and leaves the entry in the cache.
C30_EvictionBoundary ==
    [][\A w \in Workers :
        (/\ wpc[w] = "call" /\ wpc'[w] = "done" /\ wop[w].kind = "is_replay"
         /\ \E a \in Workers :
                /\ wpc[a] = "done" /\ wop[a] = CacheCall("add", wop[w].signature)
                /\ now - wres[a].value <= ttl)
        => /\ wres'[w].status = "true"
           /\ contains_key(signatures', wop[w].signature)]_vars

\* ---------------------------------------------------------------------- C31
\* C31: a record comes into existence only through a credit and is never
\* removed: no step of a ledger call makes the record of an address disappear,
\* and a step after which an address has a record it did not have is the
\* completion of an add_balance on that address; in particular a debit on an
\* address without a record, of any amount and whether it succeeds or fails,
\* leaves the address without a record.
C31_RecordOnlyByCredit ==
    [][\A a \in Addresses :
        /\ get_user(ledger, a).some => get_user(ledger', a).some
        /\ (~get_user(ledger, a).some /\ get_user(ledger', a).some)
            => \E w \in Workers :
                /\ wop[w].kind = "add_balance"
                /\ to_lowercase(wop[w].address) = to_lowercase(a)
                /\ wpc[w] # "done" /\ wpc'[w] = "done"]_vars

\* ---------------------------------------------------------------------- C32
\* C32: once the cache.add of a signature by one request has returned, every
\* is_replay of that signature that another request makes afterwards, less than
\* ttl after the add, returns true, whatever the first request is doing then
\* (the probing request is answered 401 "replay detected").  The mutex makes
\* the two calls exclude each other: a request makes its is_replay or its add
\* only while no other request holds the guard, the cache changes in no other
\* step, and the cache never holds two entries of one signature.
C32_AddVisibleToLaterProbes ==
    [][/\ \A r1, r2 \in Reqs :
            (/\ r1 # r2
             /\ at[r1] >= 0 /\ now - at[r1] < ttl
             /\ req[r2].signature = req[r1].signature
             /\ pc[r2] = "is_replay" /\ pc'[r2] # "is_replay")
            => (resp'[r2] = ReplayDetected /\ pc'[r2] = "done")
       /\ \A r \in Reqs :
            (pc[r] \in {"is_replay", "add"} /\ pc'[r] # pc[r])
            => (signature_cache \in {Unlocked, r} /\ signature_cache' = Unlocked)
       /\ signatures' # signatures
            => \E r \in Reqs :
                pc[r] \in {"is_replay", "add"} /\ pc'[r] # pc[r]
       /\ \A e1, e2 \in signatures' : e1[1] = e2[1] => e1 = e2]_vars

\* The first request has made its add and its upstream call has not returned;
\* the second, which arrived meanwhile with the same signature, was answered
\* "replay detected".
C32_Witness ==
    \E r1, r2 \in Reqs :
        /\ r1 # r2
        /\ pc[r1] = "relay_to_node" /\ at[r1] >= 0
        /\ req[r2].signature = req[r1].signature
        /\ prior[r2] = {}
        /\ resp[r2] = ReplayDetected

\* ---------------------------------------------------------------------- C33
\* The request is in a call of the ledger, of the facilitator or of the
\* upstream node, or between two of them.
InCall(r) ==
    pc[r] \in {"verify_signature", "deduct_balance", "deduct_put",
               "relay_to_node", "verify_payment", "settle_payment",
               "add_balance", "add_put"}

\* C33: the guard of the cache mutex is held only inside one is_replay block or
\* one add block: a request that is verifying, or in a call of the ledger, of
\* the facilitator or of the upstream node, or that has returned, does not hold
\* it.  So such a request never keeps another from the cache: a request that is
\* at its is_replay or its add while no other request is at one can take its
\* step.
C33_GuardOnlyDuringCacheCall ==
    /\ \A r \in Reqs :
        signature_cache = r => pc[r] \in {"is_replay", "add"}
    /\ \A r \in Reqs :
        (InCall(r) \/ pc[r] \in {"idle", "done"}) => signature_cache # r
    /\ \A r \in Reqs :
        (/\ pc[r] \in {"is_replay", "add"}
         /\ \A o \in Reqs : o # r => pc[o] \notin {"is_replay", "add"})
        => ENABLED (CheckReplay(r) \/ Remember(r))

\* While the upstream call of one request was in progress (its add made, its
\* answer not yet returned), another request went through both of its locked
\* blocks: its add was made at a later reading of the clock.
C33_Witness ==
    \E r1, r2 \in Reqs :
        /\ r1 # r2
        /\ pc[r1] = "relay_to_node" /\ at[r1] >= 0
        /\ at[r2] > at[r1]
        /\ signature_cache = Unlocked

\* ---------------------------------------------------------------------- C34
\* C34: on either backend a debit that fails for lack of funds reports
\* has = the balance the address holds when the debit checks it (0 for an
\* address without a record) and need = the amount of the debit.
C34_InsufficientReportsBalance ==
    [][\A w \in Workers :
        (/\ wop[w].kind = "deduct_balance"
         /\ wpc[w] # "done" /\ wpc'[w] = "done"
         /\ wres'[w].status = "insufficient")
        => LET res == IF backend = "rocksdb"
                      THEN rocksdb_deduct_balance(ledger, wop[w].address,
                               wop[w].amount, wop[w].timestamp)
                      ELSE dynamodb_deduct_balance(ledger, wop[w].address,
                               wop[w].amount, wop[w].timestamp)
           IN  /\ wres'[w].value = BalanceOf(ledger, wop[w].address)
               /\ res.has = BalanceOf(ledger, wop[w].address)
               /\ res.need = wop[w].amount]_vars

\* ---------------------------------------------------------------------- C35
\* C35: an authenticated request that is answered 401 leaves the ledger as it
\* was.  Each step such a request takes after its arrival (the replay check and
\* the verification, whether it passes them or is answered) changes no record,
\* attempts no debit and no credit and adds nothing to the cache; all it may do
\* to the cache is remove entries whose age has reached ttl.  A request answered
\* 401 was never debited, credited, remembered or forwarded.
C35_RejectedLeavesLedger ==
    [][\A r \in Reqs :
        /\ (pc[r] \in {"is_replay", "verify_signature"} /\ pc'[r] # pc[r])
            => /\ ledger' = ledger
               /\ debit' = debit /\ credit' = credit
               /\ user_data' = user_data /\ timestamp' = timestamp
               /\ at' = at /\ forwarded' = forwarded
               /\ signatures' \subseteq signatures
               /\ \A e \in signatures \ signatures' : now - e[2] >= ttl
               /\ pc'[r] = "done" => resp'[r].status = "401"
        /\ resp'[r].status = "401"
            => /\ req'[r].kind = "auth"
               /\ debit'[r] = "none" /\ credit'[r] = "none"
               /\ user_data'[r] = None
               /\ at'[r] < 0 /\ ~forwarded'[r]]_vars

\* The first request was debited and remembered; the second came when the entry
\* had expired, its probe evicted the entry, and it was answered 401 for its
\* timestamp: the record is as the first request left it.
C35_Witness ==
    \E r1, r2 \in Reqs :
        /\ r1 # r2
        /\ debit[r1] = "ok" /\ at[r1] >= 0
        /\ resp[r2] = OutsideWindow
        /\ signatures = {}
        /\ ledger0["0xaa"].some
        /\ get_user(ledger, req[r1].address)
             = UserData(ledger0["0xaa"].balance - price, req[r1].timestamp)

\* ---------------------------------------------------------------------- C36
\* The statuses relay answers with: 402, 401, 400, 500, 502, the error response
\* of the paygate, or what the upstream node answered.
Answers == {"402", "401", "400", "500", "502", "x402"} \cup UpstreamStatuses

\* C36: when every call returns, every request that entered relay is answered:
\* its handler reaches its return with a response, in either flow and whatever
\* the other requests do, and no request waits for the cache mutex for ever.
\* It is answered once: a response, once returned, stays as it is and the
\* handler takes no further step.
C36_EveryRequestAnswered ==
    /\ \A r \in Reqs :
        (pc[r] # "idle")
            ~> (pc[r] = "done" /\ resp[r].status \in Answers)
    /\ [][\A r \in Reqs :
            /\ resp[r] # NoResponse
                => (resp'[r] = resp[r] /\ pc'[r] = "done" /\ pc[r] = "done")
            /\ resp'[r] # NoResponse <=> pc'[r] = "done"]_vars

\* Two requests were in the handler at once, one of each flow: the deposit was
\* credited, debited and forwarded, the authenticated request was debited,
\* remembered and forwarded, and both have their answers.
C36_Witness ==
    \E r1, r2 \in Reqs :
        /\ r1 # r2
        /\ prior[r1] = {} /\ prior[r2] = {}
        /\ pc[r1] = "done" /\ pc[r2] = "done"
        /\ req[r1].kind = "payment" /\ credit[r1] = "ok" /\ forwarded[r1]
        /\ req[r2].kind = "auth" /\ at[r2] >= 0 /\ forwarded[r2]
        /\ resp[r1].status \in Answers /\ resp[r2].status \in Answers

====
